---------------------------- MODULE Spec2Model ----------------------------
(***************************************************************************)
(* A model of dsdk's AbstractPersistor (src/src/dsdk/persistor.py):        *)
(*   - the transaction scopes commit() and rollback() (context managers), *)
(*   - the existence check check() with extant(),                          *)
(*   - the chunked query df_from_query_by_ids(),                           *)
(*   - the keyed query df_from_query_by_keys() with union_all(),           *)
(*   - the YAML mapping of Persistor (as_yaml, _yaml_repr, _yaml_init).    *)
(* The connection and the cursor are driver handles: every call on them    *)
(* either returns or raises, chosen nondeterministically.                  *)
(***************************************************************************)
EXTENDS Integers, Sequences, FiniteSets, TLC

VARIABLES
    \* ---- transaction scopes ----
    pc,          \* position of each scope in commit() / rollback()
    kind,        \* which context manager the scope entered
    con,         \* the scope's local `con` (0: not bound)
    exc,         \* the exception in flight in the scope ("none": none)
    blockOut,    \* what the caller's block did ("pending" before it ran)
    out,         \* what left the scope ("pending" until it is left)
    log,         \* per scope, the calls made so far, in order
    conHeld,     \* connections acquired and not yet released
    curHeld,     \* connections whose cursor is open
    nextCon,     \* connections created so far
    \* ---- check() ----
    tables,      \* self.tables
    exceptions,  \* the exception classes the caller passed to check()
    ci,          \* index of the table the loop is at
    errors,      \* the local list `errors`
    probes,      \* what happened for each table probed so far
    executed,    \* statements passed to cur.execute, in order
    checkOut,    \* "running", "ok", or the exception that left check()
    raisedTables,\* the table list carried by the aggregated error
    \* ---- df_from_query_by_ids() ----
    ids,         \* the argument ids
    size,        \* the argument size
    parameters,  \* the argument parameters
    todo,        \* chunks not executed yet
    chunk,       \* the local `chunk` (<<>> stands for None)
    dfs,         \* the local list `dfs`
    description, \* cur.description
    calls,       \* parameters bound by each cur.execute, in order
    fetched,     \* rows each fetchall returned, in order
    idsOut,      \* "running", "df", or the exception that left the call
    df,          \* the DataFrame returned
    \* ---- df_from_query_by_keys() ----
    dialect,     \* how the dialect's mogrify scans a query for placeholders
    template,    \* the argument query
    keys,        \* the argument keys
    keyParameters, \* the argument parameters
    clauses,     \* the local dict `keys` of lines 118-120, in the order built
    query,       \* the local `query` after line 121
    rendered,    \* the local `rendered`
    artifact,    \* what was written to the temporary .sql file
    keyCalls,    \* what each cur.execute was given, in order
    steps,       \* the steps of the call made so far, in order
    keysPc,      \* position in df_from_query_by_keys()
    keysOut,     \* "running", "df", or the exception that left the call
    \* ---- Persistor and YAML ----
    persistor,   \* the attributes of a Persistor
    node,        \* the mapping node _yaml_repr made of it
    loaded,      \* the attributes of the Persistor _yaml_init made of the node
    yamlOut      \* "running", "ok", or the exception that left _yaml_init

scopeVars == <<pc, kind, con, exc, blockOut, out, log, conHeld, curHeld, nextCon>>
checkVars == <<tables, exceptions, ci, errors, probes, executed, checkOut, raisedTables>>
idsVars   == <<ids, size, parameters, todo, chunk, dfs, description, calls, fetched, idsOut, df>>
keysVars  == <<dialect, template, keys, keyParameters, clauses, query, rendered,
               artifact, keyCalls, steps, keysPc, keysOut>>
yamlVars  == <<persistor, node, loaded, yamlOut>>
vars      == <<scopeVars, checkVars, idsVars, keysVars, yamlVars>>

-----------------------------------------------------------------------------
(* Transaction scopes: commit() and rollback()                             *)

\* Two scopes opened on the same persistor, free to interleave.
Scopes == {"s1", "s2"}

\* What the caller's block may raise: an application error, or a signal that
\* is a BaseException but not an Exception.
BlockErrors == {"Exception", "KeyboardInterrupt"}

\* What the driver handles may raise, one name per call.
HandleErrors == {"ConnectError", "CursorError", "CursorCloseError",
                 "CommitError", "RollbackError", "CloseError"}

AllErrors == BlockErrors \cup HandleErrors

\* The connection kept in an attribute of the persistor, which every scope
\* opened on it overwrites, instead of in the scope's own local `con`.
EventOnSharedConnection(op, c, r) ==
    [op |-> op, con |-> IF op = "connect" THEN c ELSE nextCon, raised |-> r]

\* A call recorded in a scope's log: what was called, on which connection,
\* and whether it raised.
Event(op, c, r) == [op |-> op, con |-> c, raised |-> r]

\* How many times `op` was called in a scope's log.
Count(s, op) == Cardinality({i \in 1..Len(log[s]) : log[s][i].op = op})

\* commit() whose try statement has no except clause.
ExceptNothing(e) == FALSE

\* `except Exception` instead of `except BaseException`.
ExceptExceptionOnly(e) == e \in AllErrors \ {"KeyboardInterrupt"}

\* `except BaseException:` (commit, line 190) catches every exception.
ExceptBaseException(e) == e \in AllErrors

\* cursor() written as `yield con.cursor()`, without the with statement.
CursorNeverClosed(held, c, e) == held

\* The with statement of cursor() closing only on the normal path.
CursorCloseOnSuccessOnly(held, c, e) == IF e = "none" THEN held \ {c} ELSE held

\* `with con.cursor() as cursor: yield cursor`: the cursor's __exit__ runs on
\* every way out of the with statement.
CursorWith(held, c, e) == held \ {c}

\* A rollback scope that rolls back only when the block raised.
RollbackOnErrorOnly(e) == IF e = "none" THEN "release" ELSE "finally"

\* rollback(), lines 219-224: the finally clause runs whatever happened in
\* the try.
RollbackTry(e) == "finally"

\* commit() whose try body lacks the con.commit() call.
CommitTryWithoutCommit(e) == IF e = "none" THEN "release" ELSE "except"

\* commit(), lines 185-193: after the inner with statement, con.commit() when
\* nothing is in flight, else the except clause when it catches.
CommitTry(e) ==
    IF e = "none" THEN "commit"
    ELSE IF ExceptBaseException(e) THEN "except"
    ELSE "release"

\* The cursor opened before the try statement is entered, so that a failure
\* to open it reaches neither the except clause nor the finally clause.
CursorOpenedOutsideTry(k, e) ==
    IF e = "CursorError" THEN "release"
    ELSE IF k = "commit" THEN CommitTry(e) ELSE RollbackTry(e)

\* Where the scope goes when the try body is left with `e` in flight.
AfterTry(k, e) == IF k = "commit" THEN CommitTry(e) ELSE RollbackTry(e)

ScopeInit ==
    /\ pc = [s \in Scopes |-> "idle"]
    /\ kind = [s \in Scopes |-> "none"]
    /\ con = [s \in Scopes |-> 0]
    /\ exc = [s \in Scopes |-> "none"]
    /\ blockOut = [s \in Scopes |-> "pending"]
    /\ out = [s \in Scopes |-> "pending"]
    /\ log = [s \in Scopes |-> <<>>]
    /\ conHeld = {}
    /\ curHeld = {}
    /\ nextCon = 0

\* `with p.commit() as cur:` or `with p.rollback() as cur:` is entered.
Enter(s) ==
    /\ pc[s] = "idle"
    /\ \E k \in {"commit", "rollback"} : kind' = [kind EXCEPT ![s] = k]
    /\ pc' = [pc EXCEPT ![s] = "connect"]
    /\ UNCHANGED <<con, exc, blockOut, out, log, conHeld, curHeld, nextCon>>
    /\ UNCHANGED <<checkVars, idsVars, keysVars, yamlVars>>

\* `with self.connect() as con:` a new connection is made, or connect raises
\* and the scope is left before anything was acquired.
Connect(s) ==
    /\ pc[s] = "connect"
    /\ \E fails \in BOOLEAN :
         IF fails
         THEN /\ pc' = [pc EXCEPT ![s] = "done"]
              /\ out' = [out EXCEPT ![s] = "ConnectError"]
              /\ UNCHANGED <<con, log, conHeld, nextCon>>
         ELSE /\ nextCon' = nextCon + 1
              /\ con' = [con EXCEPT ![s] = nextCon + 1]
              /\ conHeld' = conHeld \cup {nextCon + 1}
              /\ log' = [log EXCEPT ![s] = Append(@, Event("connect", nextCon + 1, FALSE))]
              /\ pc' = [pc EXCEPT ![s] = "cursor"]
              /\ UNCHANGED out
    /\ UNCHANGED <<kind, exc, blockOut, curHeld>>
    /\ UNCHANGED <<checkVars, idsVars, keysVars, yamlVars>>

\* `with self.cursor(con) as cur:` con.cursor() returns a cursor or raises.
OpenCursor(s) ==
    /\ pc[s] = "cursor"
    /\ \E fails \in BOOLEAN :
         /\ log' = [log EXCEPT ![s] = Append(@, Event("cursor", con[s], fails))]
         /\ IF fails
            THEN /\ exc' = [exc EXCEPT ![s] = "CursorError"]
                 /\ pc' = [pc EXCEPT ![s] = AfterTry(kind[s], "CursorError")]
                 /\ UNCHANGED curHeld
            ELSE /\ curHeld' = curHeld \cup {con[s]}
                 /\ pc' = [pc EXCEPT ![s] = "block"]
                 /\ UNCHANGED exc
    /\ UNCHANGED <<kind, con, blockOut, out, conHeld, nextCon>>
    /\ UNCHANGED <<checkVars, idsVars, keysVars, yamlVars>>

\* `yield cur`: the caller's block runs, and completes or raises.
Block(s) ==
    /\ pc[s] = "block"
    /\ \E e \in {"none"} \cup BlockErrors :
         /\ blockOut' = [blockOut EXCEPT ![s] = e]
         /\ exc' = [exc EXCEPT ![s] = e]
         /\ log' = [log EXCEPT ![s] = Append(@, Event("block", con[s], e # "none"))]
    /\ pc' = [pc EXCEPT ![s] = "cursor_exit"]
    /\ UNCHANGED <<kind, con, out, conHeld, curHeld, nextCon>>
    /\ UNCHANGED <<checkVars, idsVars, keysVars, yamlVars>>

\* The inner with statement is left: the cursor is closed, which may raise;
\* an exception raised here replaces the one in flight.
CursorExit(s) ==
    /\ pc[s] = "cursor_exit"
    /\ curHeld' = CursorWith(curHeld, con[s], exc[s])
    /\ \E fails \in BOOLEAN :
         LET e == IF fails THEN "CursorCloseError" ELSE exc[s] IN
         /\ log' = [log EXCEPT ![s] = Append(@, Event("cursor_close", con[s], fails))]
         /\ exc' = [exc EXCEPT ![s] = e]
         /\ pc' = [pc EXCEPT ![s] = AfterTry(kind[s], e)]
    /\ UNCHANGED <<kind, con, blockOut, out, conHeld, nextCon>>
    /\ UNCHANGED <<checkVars, idsVars, keysVars, yamlVars>>

\* commit(), line 188: con.commit(), which may raise inside the try.
Commit(s) ==
    /\ pc[s] = "commit"
    /\ \E fails \in BOOLEAN :
         /\ log' = [log EXCEPT ![s] = Append(@, Event("commit", con[s], fails))]
         /\ IF fails
            THEN /\ exc' = [exc EXCEPT ![s] = "CommitError"]
                 /\ pc' = [pc EXCEPT ![s] =
                             IF ExceptBaseException("CommitError")
                             THEN "except" ELSE "release"]
            ELSE /\ pc' = [pc EXCEPT ![s] = "release"]
                 /\ UNCHANGED exc
    /\ UNCHANGED <<kind, con, blockOut, out, conHeld, curHeld, nextCon>>
    /\ UNCHANGED <<checkVars, idsVars, keysVars, yamlVars>>

\* commit(), lines 190-193: con.rollback(), then `raise` re-raises the
\* exception caught; an exception raised by con.rollback() replaces it.
Except(s) ==
    /\ pc[s] = "except"
    /\ \E fails \in BOOLEAN :
         /\ log' = [log EXCEPT ![s] = Append(@, Event("rollback", con[s], fails))]
         /\ exc' = [exc EXCEPT ![s] = IF fails THEN "RollbackError" ELSE @]
    /\ pc' = [pc EXCEPT ![s] = "release"]
    /\ UNCHANGED <<kind, con, blockOut, out, conHeld, curHeld, nextCon>>
    /\ UNCHANGED <<checkVars, idsVars, keysVars, yamlVars>>

\* rollback(), lines 222-224: the finally clause calls con.rollback(); the
\* exception in flight, if any, goes on unless con.rollback() raises.
Finally(s) ==
    /\ pc[s] = "finally"
    /\ \E fails \in BOOLEAN :
         /\ log' = [log EXCEPT ![s] = Append(@, Event("rollback", con[s], fails))]
         /\ exc' = [exc EXCEPT ![s] = IF fails THEN "RollbackError" ELSE @]
    /\ pc' = [pc EXCEPT ![s] = "release"]
    /\ UNCHANGED <<kind, con, blockOut, out, conHeld, curHeld, nextCon>>
    /\ UNCHANGED <<checkVars, idsVars, keysVars, yamlVars>>

\* The outer with statement is left: connect() releases the connection on
\* every way out; closing may raise, and what is then in flight leaves the
\* scope.
Release(s) ==
    /\ pc[s] = "release"
    /\ conHeld' = conHeld \ {con[s]}
    /\ \E fails \in BOOLEAN :
         LET e == IF fails THEN "CloseError" ELSE exc[s] IN
         /\ log' = [log EXCEPT ![s] = Append(@, Event("close", con[s], fails))]
         /\ exc' = [exc EXCEPT ![s] = e]
         /\ out' = [out EXCEPT ![s] = e]
    /\ pc' = [pc EXCEPT ![s] = "done"]
    /\ UNCHANGED <<kind, con, blockOut, curHeld, nextCon>>
    /\ UNCHANGED <<checkVars, idsVars, keysVars, yamlVars>>

\* The other operations' state, as it is before they are called.
CheckIdle ==
    /\ tables = <<>>
    /\ exceptions = {}
    /\ ci = 0
    /\ errors = <<>>
    /\ probes = <<>>
    /\ executed = <<>>
    /\ checkOut = "idle"
    /\ raisedTables = <<>>

IdsIdle ==
    /\ ids = <<>>
    /\ size = 1
    /\ parameters = [none |-> TRUE, items |-> {}]
    /\ todo = <<>>
    /\ chunk = <<>>
    /\ dfs = <<>>
    /\ description = "none"
    /\ calls = <<>>
    /\ fetched = <<>>
    /\ idsOut = "idle"
    /\ df = [rows |-> <<>>, columns |-> "none"]

KeysIdle ==
    /\ dialect = "none"
    /\ template = <<>>
    /\ keys = [none |-> TRUE, groups |-> <<>>]
    /\ keyParameters = [none |-> TRUE, items |-> {}]
    /\ clauses = <<>>
    /\ query = <<>>
    /\ rendered = <<>>
    /\ artifact = "none"
    /\ keyCalls = <<>>
    /\ steps = <<>>
    /\ keysPc = "idle"
    /\ keysOut = "idle"

YamlIdle ==
    /\ persistor = "none"
    /\ node = "none"
    /\ loaded = "none"
    /\ yamlOut = "idle"

ScopeNext ==
    \E s \in Scopes :
        \/ Enter(s)
        \/ Connect(s)
        \/ OpenCursor(s)
        \/ Block(s)
        \/ CursorExit(s)
        \/ Commit(s)
        \/ Except(s)
        \/ Finally(s)
        \/ Release(s)

InitScope == ScopeInit /\ CheckIdle /\ IdsIdle /\ KeysIdle /\ YamlIdle

SpecScope == InitScope /\ [][ScopeNext]_vars

-----------------------------------------------------------------------------
(* Existence check: check() and extant()                                   *)

MaxNameLen == 3
MaxTables == 2
MaxRows == 2

\* Every sequence over S of length at most n.
SeqsUpTo(S, n) == UNION {[1..k -> S] : k \in 0..n}

\* Characters a table name is made of: letters, a digit, the underscore, the
\* dot, characters outside the identifier classes, and the line feed.
Letters == {"a", "Z"}
Digits == {"0"}
Others == {";", " "}
Alphabet == Letters \cup Digits \cup {"_", ".", "\n"} \cup Others

Names == SeqsUpTo(Alphabet, MaxNameLen)

\* The character classes of ALPHA_NUMERIC_DOT: [a-zA-Z_] and [A-Za-z0-9_.].
FirstClass == Letters \cup {"_"}
RestClass == Letters \cup Digits \cup {"_", "."}

\* `$` of Python's re without MULTILINE, after the first k characters of s:
\* the end of the string, or just before a line feed that ends the string.
AtDollar(s, k) ==
    \/ k = Len(s)
    \/ k = Len(s) - 1 /\ s[Len(s)] = "\n"

\* ALPHA_NUMERIC_DOT.match(s), line 21 and line 210: the first character in
\* the first class, then some characters of the second class, then `$`.
RegexMatch(s) ==
    \E k \in 1..Len(s) :
        /\ s[1] \in FirstClass
        /\ \A j \in 2..k : s[j] \in RestClass
        /\ AtDollar(s, k)

\* self.sql.extant.format(table=table): the template's text with the name
\* put in its {table} slot.
Statement(table) == <<"extant">> \o table

\* extant(table), lines 208-212: the statement, or ValueError.
Extant(table) ==
    IF ~RegexMatch(table)
    THEN [raised |-> "ValueError", statement |-> <<>>]
    ELSE [raised |-> "none", statement |-> Statement(table)]

\* What cur.execute may raise.
DriverErrors == {"DatabaseError", "InterfaceError"}

\* The exception classes a caller may pass to check().
ExceptionSets == {
    {"DatabaseError"},
    {"DatabaseError", "ValueError"},
    {"DatabaseError", "InterfaceError", "ValueError", "AssertionError"} }

\* A row, by its first value n.
RowValues == {0, 1}
RowSeqs == SeqsUpTo(RowValues, MaxRows)

\* `for row in cur: n, *_ = row; assert n == 1`, lines 169-172.
RowLoop(rows) ==
    IF \E j \in 1..Len(rows) : rows[j] # 1 THEN "AssertionError" ELSE "none"

\* cur.execute wrapped in a retry that sends the statement a second time.
CursorExecuteRetried(history, statement) == Append(Append(history, statement), statement)

\* cur.execute(...), lines 168 and 81: one call of the cursor, recorded in
\* the order the calls are made.
CursorExecute(history, statement) == Append(history, statement)

\* `except Exception:` instead of `except exceptions:`.
ExceptAny(raised, excs) == TRUE

\* `except exceptions:`, line 173: the clause catches what is in the
\* caller-supplied set and nothing else.
ExceptExceptions(raised, excs) == raised \in excs

\* errors = [table] instead of errors.append(table).
ErrorsOverwritten(errs, table) == <<table>>

\* errors.append(table), line 175.
ErrorsAppend(errs, table) == Append(errs, table)

\* The tables a check may be configured with.
CheckNames == {<<"a">>, <<"a", ".", "Z">>, <<";">>}

CheckStart(tabs, excs) ==
    /\ tables = tabs
    /\ exceptions = excs
    /\ ci = 1
    /\ errors = <<>>
    /\ probes = <<>>
    /\ executed = <<>>
    /\ checkOut = "running"
    /\ raisedTables = <<>>

\* One pass of the loop of check(), lines 163-175, for tables[ci]: what
\* extant did, what the cursor did (`e`: what cur.execute raised, `rows`: the
\* rows it gave), and the except clause.
CheckProbeWith(e, rows) ==
    LET table == tables[ci]
        ext == Extant(table)
        ran == ext.raised = "none"
        got == IF ran /\ e = "none" THEN rows ELSE <<>>
        raised == IF ~ran THEN ext.raised
                  ELSE IF e # "none" THEN e
                  ELSE RowLoop(rows)
    IN  /\ executed' = IF ran THEN CursorExecute(executed, ext.statement) ELSE executed
        /\ probes' = Append(probes, [table |-> table, executed |-> ran,
                                     rows |-> got, raised |-> raised])
        /\ IF raised = "none"
           THEN /\ ci' = ci + 1
                /\ UNCHANGED <<errors, checkOut>>
           ELSE IF ExceptExceptions(raised, exceptions)
           THEN /\ errors' = ErrorsAppend(errors, table)
                /\ ci' = ci + 1
                /\ UNCHANGED checkOut
           ELSE /\ checkOut' = raised
                /\ UNCHANGED <<errors, ci>>

CheckProbe ==
    /\ checkOut = "running"
    /\ ci <= Len(tables)
    /\ \/ \E e \in DriverErrors : CheckProbeWith(e, <<>>)
       \/ \E rows \in RowSeqs : CheckProbeWith("none", rows)
    /\ UNCHANGED <<tables, exceptions, raisedTables>>
    /\ UNCHANGED <<scopeVars, idsVars, keysVars, yamlVars>>

\* check(), lines 176-178: after the loop, the aggregated error or nothing.
CheckEnd ==
    /\ checkOut = "running"
    /\ ci > Len(tables)
    /\ IF errors # <<>>
       THEN checkOut' = "RuntimeError" /\ raisedTables' = errors
       ELSE checkOut' = "ok" /\ UNCHANGED raisedTables
    /\ UNCHANGED <<tables, exceptions, ci, errors, probes, executed>>
    /\ UNCHANGED <<scopeVars, idsVars, keysVars, yamlVars>>

CheckNext == CheckProbe \/ CheckEnd

\* check() on a persistor configured with up to MaxTables tables.
InitCheck ==
    /\ \E tabs \in SeqsUpTo(CheckNames, MaxTables), excs \in ExceptionSets :
          CheckStart(tabs, excs)
    /\ ScopeInit
    /\ IdsIdle
    /\ KeysIdle
    /\ YamlIdle

SpecCheck == InitCheck /\ [][CheckNext]_vars

\* check() on a persistor configured with one table, of any name.
InitExtant ==
    /\ \E name \in Names, excs \in ExceptionSets : CheckStart(<<name>>, excs)
    /\ ScopeInit
    /\ IdsIdle
    /\ KeysIdle
    /\ YamlIdle

SpecExtant == InitExtant /\ [][CheckNext]_vars

-----------------------------------------------------------------------------
(* Chunked query: df_from_query_by_ids()                                   *)

MaxIds == 5
MaxSize == 3

IdValues == {1, 2}

\* A dict is the set of its <<key, value>> items; every value is a sequence.
Keys(d) == {item[1] : item \in d}

\* The `parameters` argument: None, or a dict; a dict may hold extra
\* parameters and may itself hold the key "ids".
ParameterChoices == {
    [none |-> TRUE, items |-> {}],
    [none |-> FALSE, items |-> {<<"p", <<7>>>>}],
    [none |-> FALSE, items |-> {<<"ids", <<9>>>>, <<"p", <<7>>>>}] }

\* What cur.description may be after an execute.
Descriptions == {"columns_a", "columns_b"}

Min(a, b) == IF a < b THEN a ELSE b

\* chunks(sequence, n): the consecutive slices of at most n items, in order.
RECURSIVE Chunks(_, _)
Chunks(seq, n) ==
    IF seq = <<>> THEN <<>>
    ELSE <<SubSeq(seq, 1, Min(n, Len(seq)))>>
            \o Chunks(SubSeq(seq, Min(n, Len(seq)) + 1, Len(seq)), n)

\* `if parameters is None: parameters = {}`, lines 69-70.
ParametersOrEmpty(par) == IF par.none THEN {} ELSE par.items

\* {"ids": chunk} alone: the caller's parameters are dropped.
BoundIdsOnly(ch, items) == {<<"ids", ch>>}

\* {"ids": chunk, **parameters}, line 81: the caller's items, and the chunk
\* under "ids" unless the caller's dict has that key (a later item wins).
Bound(ch, items) ==
    items \cup (IF "ids" \in Keys(items) THEN {} ELSE {<<"ids", ch>>})

\* What fetchall may return for a chunk: no row, the row of its first id, or
\* one row per id (a row is named by the id it is for).
FetchResults(ch) == {<<>>, <<ch[1]>>, ch}

\* No guard: the call goes on to concat.
NoEmptyGuard(ch) == FALSE

\* `if chunk is None`, line 85 (<<>> stands for None: chunks are not empty).
ChunkIsNone(ch) == ch = <<>>

RECURSIVE Concat(_)
\* pandas.concat(dfs, ignore_index=True) of a non-empty list: the frames'
\* rows, in order.
Concat(frames) ==
    IF frames = <<>> THEN <<>> ELSE Head(frames) \o Concat(Tail(frames))

\* Lines 87-89: the rows of all frames, the columns of cur.description.
Assemble(frames, desc) == [rows |-> Concat(frames), columns |-> desc]

IdsStart(seq, n, par) ==
    /\ ids = seq
    /\ size = n
    /\ parameters = par
    /\ todo = Chunks(seq, n)
    /\ chunk = <<>>
    /\ dfs = <<>>
    /\ description = "none"
    /\ calls = <<>>
    /\ fetched = <<>>
    /\ idsOut = "running"
    /\ df = [rows |-> <<>>, columns |-> "none"]

\* One pass of the loop, lines 80-84: execute bound to the next chunk, which
\* raises or sets cur.description; then fetchall, and a frame when there are
\* rows.
IdsExecute ==
    /\ idsOut = "running"
    /\ todo # <<>>
    /\ chunk' = Head(todo)
    /\ todo' = Tail(todo)
    /\ calls' = CursorExecute(calls, Bound(Head(todo), ParametersOrEmpty(parameters)))
    /\ \/ /\ idsOut' = "DatabaseError"
          /\ UNCHANGED <<description, fetched, dfs>>
       \/ \E desc \in Descriptions, rows \in FetchResults(Head(todo)) :
             /\ description' = desc
             /\ fetched' = Append(fetched, rows)
             /\ dfs' = IF rows # <<>> THEN Append(dfs, rows) ELSE dfs
             /\ UNCHANGED idsOut
    /\ UNCHANGED <<ids, size, parameters, df>>
    /\ UNCHANGED <<scopeVars, checkVars, keysVars, yamlVars>>

\* After the loop, lines 85-90: ValueError when no chunk was seen; else
\* concat, which raises ValueError on an empty list of frames, and the
\* columns from cur.description.
IdsFinish ==
    /\ idsOut = "running"
    /\ todo = <<>>
    /\ IF ChunkIsNone(chunk)
       THEN /\ idsOut' = "ValueError: Parameter ids must not be empty"
            /\ UNCHANGED df
       ELSE IF dfs = <<>>
       THEN /\ idsOut' = "ValueError: No objects to concatenate"
            /\ UNCHANGED df
       ELSE /\ idsOut' = "df"
            /\ df' = Assemble(dfs, description)
    /\ UNCHANGED <<ids, size, parameters, todo, chunk, dfs, description, calls, fetched>>
    /\ UNCHANGED <<scopeVars, checkVars, keysVars, yamlVars>>

IdsNext == IdsExecute \/ IdsFinish

InitIds ==
    /\ \E seq \in SeqsUpTo(IdValues, MaxIds), n \in 1..MaxSize,
          par \in ParameterChoices : IdsStart(seq, n, par)
    /\ ScopeInit
    /\ CheckIdle
    /\ KeysIdle
    /\ YamlIdle

SpecIds == InitIds /\ [][IdsNext]_vars

\* Either operation called on a cursor, every call the cursor receives being
\* recorded: check() on a persistor configured with up to MaxTables tables,
\* or df_from_query_by_ids() with up to MaxIds ids.
InitExecutions == InitCheck \/ InitIds

ExecutionsNext == CheckProbe \/ CheckEnd \/ IdsExecute \/ IdsFinish

SpecExecutions == InitExecutions /\ [][ExecutionsNext]_vars

-----------------------------------------------------------------------------
(* The keyed query: df_from_query_by_keys(), union_all() and mogrify()      *)

\* The most keys supplied for one key-group.
MaxKeys == 3

\* Query text is a sequence of tokens: pieces of SQL, the positional
\* placeholder, the named placeholders, the template's slots, the quote that
\* opens or closes a string literal, and the doubled quote inside one.
Positional == "%s"
NamedPlaceholders == {"%(p)s", "%(q)s"}
PlaceholderName(tok) == IF tok = "%(p)s" THEN "p" ELSE "q"
IsPlaceholder(tok) == tok = Positional \/ tok \in NamedPlaceholders
Slots == {"{k}", "{j}"}
SlotName(tok) == IF tok = "{k}" THEN "k" ELSE "j"
Quote == "'"
EscapedQuote == "''"

\* A Python value handed to the driver: a number, or a string with its text.
IntValue(digits) == [str |-> FALSE, text |-> <<digits>>]
StrValue(text) == [str |-> TRUE, text |-> text]

\* Key values: numbers, and strings that hold a positional placeholder, a
\* named placeholder, or a quote.
KeyValues == {IntValue("1"), IntValue("2"), StrValue(<<"%s">>),
              StrValue(<<"%(p)s">>), StrValue(<<"o", "'", "k">>)}

\* The argument keys: None, or a dict of named key-groups in insertion order.
KeyGroups ==
    {<<>>}
    \cup {<<[name |-> "k", values |-> s]>> : s \in SeqsUpTo(KeyValues, MaxKeys)}
    \cup {<<[name |-> "k", values |-> s], [name |-> "j", values |-> r]>> :
             s \in SeqsUpTo(KeyValues, MaxKeys), r \in {<<>>, <<IntValue("2")>>}}

KeyChoices ==
    {[none |-> TRUE, groups |-> <<>>]}
    \cup {[none |-> FALSE, groups |-> g] : g \in KeyGroups}

\* The argument parameters: None, or a dict of named values.
KeyParameterChoices ==
    { [none |-> TRUE, items |-> {}],
      [none |-> FALSE, items |-> {<<"p", IntValue("5")>>}],
      [none |-> FALSE, items |-> {<<"p", IntValue("5")>>, <<"q", StrValue(<<"y">>)>>}] }

\* The argument query: {name} slots for key-groups, %(name)s placeholders for
\* parameters, before and after the slots.
Templates ==
    { <<"select a from (select null ", "{k}", ") as x">>,
      <<"select ", "%(p)s", " as a from (select null ", "{k}", ") as x where b = ", "%(q)s">>,
      <<"select a from (select null ", "{k}", ") as x join (select null ", "{j}",
        ") as y where c = ", "%(p)s">> }

\* How a dialect's renderer finds placeholders: leaving the inside of quoted
\* string literals alone, or scanning the whole text.
Dialects == {"quote_aware", "text_scan"}

RECURSIVE Flatten(_)
Flatten(parts) ==
    IF parts = <<>> THEN <<>> ELSE Head(parts) \o Flatten(Tail(parts))

\* The renderer's literal for a value: a number as it is, a string between
\* quotes with every quote inside it doubled.
Literal(v) ==
    IF v.str
    THEN <<Quote>>
         \o [i \in 1..Len(v.text) |->
                IF v.text[i] = Quote THEN EscapedQuote ELSE v.text[i]]
         \o <<Quote>>
    ELSE v.text

\* Position i of the text is inside a quoted string literal.
InLiteral(text, i) ==
    Cardinality({j \in 1..(i - 1) : text[j] = Quote}) % 2 = 1

\* The placeholders of the text the dialect's renderer acts on.
Active(d, text) ==
    {i \in 1..Len(text) :
        IsPlaceholder(text[i]) /\ (d = "text_scan" \/ ~InLiteral(text, i))}

\* Parameters as the renderer gets them: a tuple or a dict.
TupleOf(values) == [tuple |-> TRUE, values |-> values, items |-> {}]
DictOf(items) == [tuple |-> FALSE, values |-> <<>>, items |-> items]

Lookup(items, name) == (CHOOSE pr \in items : pr[1] = name)[2]

\* The renderer raises when the placeholders it acts on and the parameters
\* do not fit: a named placeholder with a tuple, a positional one with a
\* dict, a count that differs, a name the dict lacks.
MogrifyRaises(d, text, params) ==
    LET act == Active(d, text) IN
    IF params.tuple
    THEN \/ \E i \in act : text[i] # Positional
         \/ Cardinality(act) # Len(params.values)
    ELSE \/ \E i \in act : text[i] = Positional
         \/ \E i \in act : PlaceholderName(text[i]) \notin Keys(params.items)

\* The text with every placeholder acted on replaced by its value's literal.
MogrifyText(d, text, params) ==
    LET act == Active(d, text)
        value(i) ==
            IF params.tuple
            THEN params.values[Cardinality({j \in act : j <= i})]
            ELSE Lookup(params.items, PlaceholderName(text[i]))
    IN  Flatten([i \in 1..Len(text) |->
                    IF i \in act THEN Literal(value(i)) ELSE <<text[i]>>])

\* bytes and str: mogrify returns bytes, the callers decode them.
Encode(text) == [utf8 |-> text]
Decode(bytes) == bytes.utf8

\* mogrify(cur, query, parameters) -> bytes, supplied by the dialect.
Mogrify(d, text, params) ==
    IF MogrifyRaises(d, text, params)
    THEN [raised |-> "RenderError", bytes |-> Encode(<<>>)]
    ELSE [raised |-> "none", bytes |-> Encode(MogrifyText(d, text, params))]

RECURSIVE Join(_, _)
\* sep.join(parts)
Join(sep, parts) ==
    IF parts = <<>> THEN <<>>
    ELSE IF Len(parts) = 1 THEN parts[1]
    ELSE parts[1] \o <<sep>> \o Join(sep, Tail(parts))

\* A clause whose first fragment is written "select %s", only the following
\* ones starting with "union all".
UnionTemplateFirstBare(n) ==
    Join("\n    ", [i \in 1..n |->
                      IF i = 1 THEN <<"select ", Positional>>
                      ELSE <<"union all select ", Positional>>])

\* union_all(), line 150: "\n    ".join("union all select %s" for _ in
\* parameters).
UnionTemplate(n) ==
    Join("\n    ", [i \in 1..n |-> <<"union all select ", Positional>>])

\* The values formatted into the clause as they are, without mogrify.
UnionAllUnrendered(d, values) ==
    [raised |-> "none",
     text |-> Join("\n    ", [i \in 1..Len(values) |->
                                <<"union all select ">> \o values[i].text])]

\* union_all(), lines 149-152: the template rendered with tuple(keys).
UnionAll(d, values) ==
    LET m == Mogrify(d, UnionTemplate(Len(values)), TupleOf(values))
    IN  [raised |-> m.raised, text |-> Decode(m.bytes)]

\* Lines 114-115: `if keys is None: keys = {}`.
KeysOrEmpty(k) == IF k.none THEN <<>> ELSE k.groups

ClauseNames(cl) == {cl[i].name : i \in 1..Len(cl)}
ClauseOf(cl, name) == cl[CHOOSE i \in 1..Len(cl) : cl[i].name = name].text

\* query.format(**keys), line 121: every slot is replaced by the clause of
\* its name; a slot no clause is named after raises KeyError. What is
\* substituted is not parsed again.
Format(text, cl) ==
    IF \E i \in 1..Len(text) :
          text[i] \in Slots /\ SlotName(text[i]) \notin ClauseNames(cl)
    THEN [raised |-> "KeyError", text |-> <<>>]
    ELSE [raised |-> "none",
          text |-> Flatten([i \in 1..Len(text) |->
                              IF text[i] \in Slots
                              THEN ClauseOf(cl, SlotName(text[i]))
                              ELSE <<text[i]>>])]

\* cur.execute(query, parameters): the template as it is after format,
\* with the parameters left for the driver to bind.
ExecuteQueryWithParameters(q, r, par) ==
    [statement |-> q, bound |-> [none |-> FALSE, items |-> par]]

\* Nothing given to cur.execute to bind.
NothingBound == [none |-> TRUE, items |-> {}]

\* cur.execute(rendered), line 125: the rendered text, nothing bound.
ExecuteArguments(q, r, par) == [statement |-> r, bound |-> NothingBound]

KeysStart(d, q, k, par) ==
    /\ dialect = d
    /\ template = q
    /\ keys = k
    /\ keyParameters = par
    /\ clauses = <<>>
    /\ query = <<>>
    /\ rendered = <<>>
    /\ artifact = "none"
    /\ keyCalls = <<>>
    /\ steps = <<>>
    /\ keysPc = "keys"
    /\ keysOut = "running"

\* One pass of the dict comprehension, lines 118-120: union_all for the next
\* key-group.
KeysUnionAll ==
    /\ keysPc = "keys"
    /\ Len(clauses) < Len(KeysOrEmpty(keys))
    /\ LET group == KeysOrEmpty(keys)[Len(clauses) + 1]
           u == UnionAll(dialect, group.values)
       IN  /\ steps' = Append(steps, "union_all")
           /\ IF u.raised = "none"
              THEN /\ clauses' = Append(clauses, [name |-> group.name, text |-> u.text])
                   /\ UNCHANGED <<keysPc, keysOut>>
              ELSE /\ keysPc' = "done"
                   /\ keysOut' = u.raised
                   /\ UNCHANGED clauses
    /\ UNCHANGED <<dialect, template, keys, keyParameters, query, rendered,
                   artifact, keyCalls>>
    /\ UNCHANGED <<scopeVars, checkVars, idsVars, yamlVars>>

\* Line 121: the clauses are substituted into the template.
KeysFormat ==
    /\ keysPc = "keys"
    /\ Len(clauses) = Len(KeysOrEmpty(keys))
    /\ LET f == Format(template, clauses)
       IN  /\ steps' = Append(steps, "format")
           /\ IF f.raised = "none"
              THEN /\ query' = f.text
                   /\ keysPc' = "mogrify"
                   /\ UNCHANGED keysOut
              ELSE /\ keysPc' = "done"
                   /\ keysOut' = f.raised
                   /\ UNCHANGED query
    /\ UNCHANGED <<dialect, template, keys, keyParameters, clauses, rendered,
                   artifact, keyCalls>>
    /\ UNCHANGED <<scopeVars, checkVars, idsVars, yamlVars>>

\* Line 122: the substituted template is rendered against parameters.
KeysMogrify ==
    /\ keysPc = "mogrify"
    /\ LET m == Mogrify(dialect, query, DictOf(ParametersOrEmpty(keyParameters)))
       IN  /\ steps' = Append(steps, "mogrify")
           /\ IF m.raised = "none"
              THEN /\ rendered' = Decode(m.bytes)
                   /\ keysPc' = "write"
                   /\ UNCHANGED keysOut
              ELSE /\ keysPc' = "done"
                   /\ keysOut' = m.raised
                   /\ UNCHANGED rendered
    /\ UNCHANGED <<dialect, template, keys, keyParameters, clauses, query,
                   artifact, keyCalls>>
    /\ UNCHANGED <<scopeVars, checkVars, idsVars, yamlVars>>

\* Lines 123-124: the rendered statement is written to a temporary .sql
\* file, which the file system may refuse.
KeysWrite ==
    /\ keysPc = "write"
    /\ steps' = Append(steps, "write")
    /\ \E fails \in BOOLEAN :
         IF fails
         THEN /\ keysPc' = "done"
              /\ keysOut' = "OSError"
              /\ UNCHANGED artifact
         ELSE /\ artifact' = rendered
              /\ keysPc' = "execute"
              /\ UNCHANGED keysOut
    /\ UNCHANGED <<dialect, template, keys, keyParameters, clauses, query,
                   rendered, keyCalls>>
    /\ UNCHANGED <<scopeVars, checkVars, idsVars, yamlVars>>

\* Line 125: cur.execute(rendered), which may raise.
KeysExecute ==
    /\ keysPc = "execute"
    /\ steps' = Append(steps, "execute")
    /\ keyCalls' = CursorExecute(keyCalls,
                      ExecuteArguments(query, rendered, ParametersOrEmpty(keyParameters)))
    /\ \E fails \in BOOLEAN :
         IF fails
         THEN keysPc' = "done" /\ keysOut' = "DatabaseError"
         ELSE keysPc' = "fetch" /\ UNCHANGED keysOut
    /\ UNCHANGED <<dialect, template, keys, keyParameters, clauses, query,
                   rendered, artifact>>
    /\ UNCHANGED <<scopeVars, checkVars, idsVars, yamlVars>>

\* Lines 126-130: fetchall, DataFrame(rows), and the columns from
\* cur.description, which a frame made of no rows does not take.
KeysFetch ==
    /\ keysPc = "fetch"
    /\ steps' = Append(steps, "fetch")
    /\ \E rows \in {<<>>, <<1>>} :
         keysOut' = IF rows = <<>> THEN "ValueError" ELSE "df"
    /\ keysPc' = "done"
    /\ UNCHANGED <<dialect, template, keys, keyParameters, clauses, query,
                   rendered, artifact, keyCalls>>
    /\ UNCHANGED <<scopeVars, checkVars, idsVars, yamlVars>>

KeysNext ==
    \/ KeysUnionAll
    \/ KeysFormat
    \/ KeysMogrify
    \/ KeysWrite
    \/ KeysExecute
    \/ KeysFetch

InitKeys ==
    /\ \E d \in Dialects, q \in Templates, k \in KeyChoices,
          par \in KeyParameterChoices : KeysStart(d, q, k, par)
    /\ ScopeInit
    /\ CheckIdle
    /\ IdsIdle
    /\ YamlIdle

SpecKeys == InitKeys /\ [][KeysNext]_vars

-----------------------------------------------------------------------------
(* Persistor and its YAML mapping: as_yaml(), _yaml_repr(), _yaml_init()    *)

\* Persistor.YAML, line 230.
YAML == "!basepersistor"

\* The keyword-only parameters of Persistor.__init__, lines 252-261, none of
\* which has a default.
InitKeywords == {"database", "host", "password", "port", "sql", "tables", "username"}

\* The persistors a configuration may describe.
Configurations ==
    [database : {"warehouse", "test"},
     host : {"localhost", "db.example.org"},
     password : {"", "secret"},
     port : {1433, 5432},
     sql : {"asset_a", "asset_b"},
     tables : SeqsUpTo(CheckNames, MaxTables),
     username : {"reader", "writer"}]

\* AbstractPersistor.__init__, lines 154-157.
AbstractPersistorInit(sql, tabs) == [sql |-> sql, tables |-> tabs]

\* Persistor.__init__, lines 263-269: the attributes of the new persistor.
PersistorInit(kw) ==
    LET super == AbstractPersistorInit(kw.sql, kw.tables)
    IN  [database |-> kw.database,
         host |-> kw.host,
         password |-> kw.password,
         port |-> kw.port,
         username |-> kw.username,
         sql |-> super.sql,
         tables |-> super.tables]

\* cls(**mapping): a keyword the signature lacks, or a required one that is
\* missing, raises TypeError before __init__ runs.
Construct(mapping) ==
    IF DOMAIN mapping = InitKeywords
    THEN [raised |-> "none", self |-> PersistorInit(mapping)]
    ELSE [raised |-> "TypeError", self |-> "none"]

\* as_yaml() emitting the user under the key "user".
AsYamlUserKey(self) ==
    [database |-> self.database,
     host |-> self.host,
     password |-> self.password,
     port |-> self.port,
     sql |-> self.sql,
     tables |-> self.tables,
     user |-> self.username]

\* as_yaml(), lines 271-281.
AsYaml(self) ==
    [database |-> self.database,
     host |-> self.host,
     password |-> self.password,
     port |-> self.port,
     sql |-> self.sql,
     tables |-> self.tables,
     username |-> self.username]

\* dumper.represent_mapping(tag, mapping) and loader.construct_mapping(node,
\* deep=True): a mapping node holds its tag and the mapping's items.
RepresentMapping(tag, mapping) == [tag |-> tag, mapping |-> mapping]
ConstructMapping(n) == n.mapping

YamlStart(p) ==
    /\ persistor = p
    /\ node = "none"
    /\ loaded = "none"
    /\ yamlOut = "running"

\* _yaml_repr, lines 247-250.
YamlRepr ==
    /\ yamlOut = "running"
    /\ node' = RepresentMapping(YAML, AsYaml(persistor))
    /\ yamlOut' = "represented"
    /\ UNCHANGED <<persistor, loaded>>
    /\ UNCHANGED <<scopeVars, checkVars, idsVars, keysVars>>

\* _yaml_init, lines 242-245.
YamlInit ==
    /\ yamlOut = "represented"
    /\ LET made == Construct(ConstructMapping(node))
       IN  /\ loaded' = made.self
           /\ yamlOut' = IF made.raised = "none" THEN "ok" ELSE made.raised
    /\ UNCHANGED <<persistor, node>>
    /\ UNCHANGED <<scopeVars, checkVars, idsVars, keysVars>>

YamlNext == YamlRepr \/ YamlInit

InitYaml ==
    /\ \E p \in Configurations : YamlStart(p)
    /\ ScopeInit
    /\ CheckIdle
    /\ IdsIdle
    /\ KeysIdle

SpecYaml == InitYaml /\ [][YamlNext]_vars

-----------------------------------------------------------------------------
(* Properties of the transaction scopes (specification SpecScope)          *)

Left(s, k) == kind[s] = k /\ pc[s] = "done" /\ con[s] # 0

\* A call `op` of the scope raised.
Raised(s, op) == \E i \in 1..Len(log[s]) : log[s][i].op = op /\ log[s][i].raised

\* A handle call made after the block ran raised.
CleanupRaised(s) ==
    \/ Raised(s, "cursor_close")
    \/ Raised(s, "commit")
    \/ Raised(s, "rollback")
    \/ Raised(s, "close")

\* C1 as stated: in a commit scope whose block finished without raising,
\* con.commit() was invoked exactly once and con.rollback() never, whatever
\* the connection and cursor handles did.
C1_AsStated ==
    \A s \in Scopes :
        (Left(s, "commit") /\ blockOut[s] = "none")
            => (Count(s, "commit") = 1 /\ Count(s, "rollback") = 0)

\* C1 amended: in a commit scope whose block finished without raising,
\* con.commit() is invoked exactly once unless releasing the cursor raised
\* (then never), and con.rollback() is never invoked unless releasing the
\* cursor or con.commit() itself raised (then exactly once).
C1_CommitOnSuccess ==
    \A s \in Scopes :
        (Left(s, "commit") /\ blockOut[s] = "none")
            => /\ Count(s, "commit") = (IF Raised(s, "cursor_close") THEN 0 ELSE 1)
               /\ Count(s, "rollback") =
                     (IF Raised(s, "cursor_close") \/ Raised(s, "commit") THEN 1 ELSE 0)

C1_Witness ==
    \E s \in Scopes :
        /\ Left(s, "commit") /\ blockOut[s] = "none"
        /\ Count(s, "commit") = 1 /\ Count(s, "rollback") = 0
        /\ out[s] = "none"

\* C2 as stated: in a commit scope whose block raised (an Exception or a
\* bare BaseException), con.rollback() was invoked exactly once, con.commit()
\* never, and the error that left the scope is the block's error.
C2_AsStated ==
    \A s \in Scopes :
        (Left(s, "commit") /\ blockOut[s] \in BlockErrors)
            => /\ Count(s, "rollback") = 1
               /\ Count(s, "commit") = 0
               /\ out[s] = blockOut[s]

\* C2 amended: in a commit scope whose block raised, con.rollback() is invoked
\* exactly once and con.commit() never; an error always leaves the scope, and
\* it is the block's error unless releasing the cursor, con.rollback() or
\* releasing the connection itself raised.
C2_RollbackOnError ==
    \A s \in Scopes :
        (Left(s, "commit") /\ blockOut[s] \in BlockErrors)
            => /\ Count(s, "rollback") = 1
               /\ Count(s, "commit") = 0
               /\ out[s] # "none"
               /\ ~CleanupRaised(s) => out[s] = blockOut[s]

C2_Witness ==
    \E s \in Scopes :
        /\ Left(s, "commit") /\ blockOut[s] = "KeyboardInterrupt"
        /\ Count(s, "rollback") = 1 /\ Count(s, "commit") = 0
        /\ out[s] = "KeyboardInterrupt"

\* C3 as stated: in a rollback scope that acquired its connection,
\* con.rollback() was invoked exactly once, con.commit() never, and an error
\* raised by the block is the error that reaches the caller.
C3_AsStated ==
    \A s \in Scopes :
        Left(s, "rollback")
            => /\ Count(s, "rollback") = 1
               /\ Count(s, "commit") = 0
               /\ blockOut[s] \in BlockErrors => out[s] = blockOut[s]

\* C3 amended: in a rollback scope that acquired its connection,
\* con.rollback() is invoked exactly once whether the block completed or
\* raised, con.commit() never; when the block raised an error leaves the
\* scope, and it is the block's error unless releasing the cursor,
\* con.rollback() or releasing the connection itself raised.
C3_AlwaysRollback ==
    \A s \in Scopes :
        Left(s, "rollback")
            => /\ Count(s, "rollback") = 1
               /\ Count(s, "commit") = 0
               /\ blockOut[s] \in BlockErrors => out[s] # "none"
               /\ (blockOut[s] \in BlockErrors /\ ~CleanupRaised(s))
                     => out[s] = blockOut[s]

C3_Witness ==
    \E s, t \in Scopes :
        /\ Left(s, "rollback") /\ blockOut[s] = "none"
        /\ Count(s, "rollback") = 1 /\ out[s] = "none"
        /\ Left(t, "rollback") /\ blockOut[t] = "Exception"
        /\ Count(t, "rollback") = 1 /\ out[t] = "Exception"

\* C4: a scope that has returned or propagated holds neither its connection
\* nor its cursor, on every exit path; and a connection or cursor is held
\* only by a scope that is still inside its with statement.
C4_NoLeak ==
    /\ \A s \in Scopes :
          pc[s] = "done" => (con[s] \notin conHeld /\ con[s] \notin curHeld)
    /\ \A c \in conHeld \cup curHeld :
          \E s \in Scopes : con[s] = c /\ pc[s] \notin {"idle", "connect", "done"}
    /\ curHeld \subseteq conHeld

C4_Witness ==
    \E s, t \in Scopes :
        /\ s # t
        /\ Left(s, "commit") /\ blockOut[s] = "KeyboardInterrupt"
        /\ Raised(s, "rollback")
        /\ Left(t, "rollback") /\ Raised(t, "cursor") /\ Raised(t, "rollback")
        /\ conHeld = {} /\ curHeld = {}

\* The place of a call in the order connection acquired, cursor opened, block
\* run, cursor released, commit or rollback invoked, connection released.
EventRank(op) ==
    CASE op = "connect" -> 1
      [] op = "cursor" -> 2
      [] op = "block" -> 3
      [] op = "cursor_close" -> 4
      [] op = "commit" -> 5
      [] op = "rollback" -> 6
      [] op = "close" -> 7

Ops(s) == [i \in 1..Len(log[s]) |-> log[s][i].op]

\* C14: the calls of a scope occur in the order connection acquired, cursor
\* opened, block run, cursor released, commit or rollback invoked, connection
\* released, and a scope in which nothing raised makes all six; con.commit()
\* and con.rollback() are invoked only while the connection is held and after
\* the cursor was released; the block runs only while connection and cursor
\* are both held.
C14_ScopeOrder ==
    \A s \in Scopes :
        /\ \A i, j \in 1..Len(log[s]) :
              i < j => EventRank(log[s][i].op) < EventRank(log[s][j].op)
        /\ pc[s] \in {"commit", "except", "finally"}
              => (con[s] \in conHeld /\ con[s] \notin curHeld)
        /\ pc[s] = "block" => (con[s] \in conHeld /\ con[s] \in curHeld)
        /\ \A i \in 1..Len(log[s]) :
              log[s][i].op \in {"block", "commit", "rollback"}
                 => /\ log[s][1] = Event("connect", con[s], FALSE)
                    /\ \A j \in 1..i : log[s][j].op # "close"
        /\ \A i \in 1..Len(log[s]) :
              log[s][i].op = "block" => log[s][2] = Event("cursor", con[s], FALSE)
        /\ (pc[s] = "done" /\ out[s] = "none")
              => Ops(s) = <<"connect", "cursor", "block", "cursor_close",
                            (IF kind[s] = "commit" THEN "commit" ELSE "rollback"),
                            "close">>

C14_Witness ==
    \E s, t \in Scopes :
        /\ pc[s] = "done" /\ kind[s] = "commit" /\ out[s] = "none"
        /\ Ops(s) = <<"connect", "cursor", "block", "cursor_close", "commit", "close">>
        /\ pc[t] = "done" /\ kind[t] = "rollback" /\ out[t] = "Exception"
        /\ Ops(t) = <<"connect", "cursor", "block", "cursor_close", "rollback", "close">>

\* C18: every scope that got past connect() has a connection of its own, and
\* every call a scope makes (con.commit() and con.rollback() among them) goes
\* to that connection and never to the connection of the other scope,
\* whatever the interleaving and whatever either block raised.
C18_Isolation ==
    /\ \A s, t \in Scopes :
          (s # t /\ con[s] # 0 /\ con[t] # 0) => con[s] # con[t]
    /\ \A s \in Scopes : \A i \in 1..Len(log[s]) : log[s][i].con = con[s]
    /\ \A s, t \in Scopes : \A i \in 1..Len(log[s]) :
          (s # t /\ con[t] # 0 /\ log[s][i].op \in {"commit", "rollback"})
             => log[s][i].con # con[t]

\* One scope was entered while the other was open, its block raised and it
\* was rolled back, and the other scope is still inside its block.
C18_Witness ==
    \E s, t \in Scopes :
        /\ s # t
        /\ pc[t] = "block" /\ con[t] \in conHeld /\ con[t] \in curHeld
        /\ con[s] > con[t]
        /\ Left(s, "commit") /\ blockOut[s] = "Exception"
        /\ Count(s, "rollback") = 1
        /\ Count(t, "commit") = 0 /\ Count(t, "rollback") = 0

\* The calls `op` of a scope all went to the scope's own connection.
OnOwnConnection(s, op) ==
    \A i \in 1..Len(log[s]) : log[s][i].op = op => log[s][i].con = con[s]

\* C19 as stated: in a commit scope whose block completed and whose
\* con.commit() raised, con.rollback() was invoked exactly once on the same
\* connection, the connection was released, and the error that reaches the
\* caller is the one con.commit() raised.
C19_AsStated ==
    \A s \in Scopes :
        (Left(s, "commit") /\ blockOut[s] = "none" /\ Raised(s, "commit"))
            => /\ Count(s, "rollback") = 1
               /\ OnOwnConnection(s, "rollback")
               /\ Count(s, "close") = 1 /\ con[s] \notin conHeld
               /\ out[s] = "CommitError"

\* C19 amended: in a commit scope whose block completed and whose
\* con.commit() raised, con.rollback() is invoked exactly once on the same
\* connection and the connection is released; an error always reaches the
\* caller, and it is the one con.commit() raised unless con.rollback() or
\* releasing the connection itself raised.
C19_FailedCommit ==
    \A s \in Scopes :
        (Left(s, "commit") /\ blockOut[s] = "none" /\ Raised(s, "commit"))
            => /\ Count(s, "rollback") = 1
               /\ OnOwnConnection(s, "rollback")
               /\ Count(s, "close") = 1 /\ con[s] \notin conHeld
               /\ out[s] # "none"
               /\ (~Raised(s, "rollback") /\ ~Raised(s, "close"))
                     => out[s] = "CommitError"

C19_Witness ==
    \E s \in Scopes :
        /\ Left(s, "commit") /\ blockOut[s] = "none" /\ Raised(s, "commit")
        /\ Count(s, "rollback") = 1 /\ ~Raised(s, "rollback")
        /\ con[s] \notin conHeld
        /\ out[s] = "CommitError"

\* A scope that was left because connect() raised.
ConnectFailed(s) == pc[s] = "done" /\ con[s] = 0

\* A scope that was left after opening its cursor raised.
CursorOpenFailed(s) == pc[s] = "done" /\ con[s] # 0 /\ Raised(s, "cursor")

\* C20 as stated: when connect() raised nothing else was called and the
\* block did not run; when opening the cursor raised the block did not run,
\* con.commit() was never invoked, con.rollback() was invoked exactly once
\* in either kind of scope, and the cursor-open error reaches the caller.
C20_AsStated ==
    \A s \in Scopes :
        /\ ConnectFailed(s)
              => (log[s] = <<>> /\ blockOut[s] = "pending" /\ out[s] = "ConnectError")
        /\ CursorOpenFailed(s)
              => /\ blockOut[s] = "pending" /\ Count(s, "block") = 0
                 /\ Count(s, "commit") = 0
                 /\ Count(s, "rollback") = 1
                 /\ out[s] = "CursorError"

\* C20 amended: when connect() raised nothing else was called and the block
\* did not run; when opening the cursor raised the block does not run,
\* con.commit() is never invoked and con.rollback() is invoked exactly once
\* in either kind of scope; an error always reaches the caller, and it is the
\* cursor-open error unless con.rollback() or releasing the connection
\* itself raised.
C20_FailureBeforeBlock ==
    \A s \in Scopes :
        /\ ConnectFailed(s)
              => (log[s] = <<>> /\ blockOut[s] = "pending" /\ out[s] = "ConnectError")
        /\ CursorOpenFailed(s)
              => /\ blockOut[s] = "pending" /\ Count(s, "block") = 0
                 /\ Count(s, "commit") = 0
                 /\ Count(s, "rollback") = 1
                 /\ out[s] # "none"
                 /\ (~Raised(s, "rollback") /\ ~Raised(s, "close"))
                       => out[s] = "CursorError"

C20_Witness ==
    \E s, t \in Scopes :
        /\ ConnectFailed(s) /\ out[s] = "ConnectError"
        /\ CursorOpenFailed(t) /\ kind[t] = "commit"
        /\ Count(t, "rollback") = 1 /\ Count(t, "commit") = 0
        /\ out[t] = "CursorError"

-----------------------------------------------------------------------------
(* Properties of check() and extant() (SpecCheck, SpecExtant)              *)

\* The tables whose probe raised, among the first k, in configured order.
FailedUpTo[k \in 0..Len(probes)] ==
    IF k = 0 THEN <<>>
    ELSE IF probes[k].raised # "none"
         THEN Append(FailedUpTo[k - 1], tables[k])
         ELSE FailedUpTo[k - 1]

ScanCompleted == checkOut \in {"ok", "RuntimeError"}

\* C5: check() goes on probing after a table failed with an exception of the
\* supplied set: it stops early only on an exception outside the set; when
\* the scan completes every configured table was probed, in order, the
\* aggregated error carries exactly the tables whose probe raised, in
\* configured order, and check() returns silently exactly when none raised.
C5_Aggregation ==
    /\ ScanCompleted =>
          /\ Len(probes) = Len(tables)
          /\ \A i \in 1..Len(tables) : probes[i].table = tables[i]
          /\ raisedTables = FailedUpTo[Len(probes)]
          /\ checkOut = "ok" <=> FailedUpTo[Len(probes)] = <<>>
          /\ checkOut = "RuntimeError" <=> raisedTables # <<>>
    /\ checkOut \notin {"running", "ok", "RuntimeError"} =>
          /\ probes # <<>>
          /\ probes[Len(probes)].raised = checkOut
          /\ checkOut \notin exceptions
          /\ \A i \in 1..(Len(probes) - 1) :
                probes[i].raised \in exceptions \cup {"none"}

C5_Witness ==
    /\ checkOut = "RuntimeError"
    /\ Len(tables) = 2
    /\ probes[1].raised \in exceptions
    /\ probes[2].executed /\ probes[2].raised = "none"
    /\ raisedTables = <<tables[1]>>

\* C6 as stated: a table passes (its probe raises nothing, so the table is
\* not reported) only if the probe returned exactly one row whose first value
\* is 1.
C6_AsStated ==
    \A i \in 1..Len(probes) :
        (probes[i].executed /\ probes[i].raised = "none") => probes[i].rows = <<1>>

\* The strict identifier pattern: a letter or underscore, then letters,
\* digits, underscores and dots, and nothing else.
StrictIdentifier(s) ==
    /\ Len(s) >= 1
    /\ s[1] \in {"a", "Z", "_"}
    /\ \A j \in 2..Len(s) : s[j] \in {"a", "Z", "0", "_", "."}

\* C7 as stated: for a table name that is not a strict identifier, extant
\* raises ValueError and returns no statement, and no statement built from
\* that name is executed on the cursor.
C7_AsStated ==
    \A i \in 1..Len(probes) :
        ~StrictIdentifier(probes[i].table) =>
            /\ Extant(probes[i].table).raised = "ValueError"
            /\ Extant(probes[i].table).statement = <<>>
            /\ ~probes[i].executed
            /\ \A j \in 1..Len(executed) : executed[j] # Statement(probes[i].table)

\* C15: an exception raised while probing a table and not in the
\* caller-supplied set (a driver error outside the set, the ValueError of
\* extant, the failed assertion on the value) leaves check() as it is and at
\* once: the probe that raised it is the last one, the table is not in the
\* failed list, and no aggregated error is built.
C15_Uncaught ==
    /\ \A i \in 1..Len(probes) :
          probes[i].raised \notin exceptions \cup {"none"}
             => /\ i = Len(probes)
                /\ checkOut = probes[i].raised
                /\ ci = i
                /\ errors = FailedUpTo[i - 1]
                /\ raisedTables = <<>>
    /\ \A i \in 1..Len(probes) :
          /\ (~probes[i].executed /\ "ValueError" \notin exceptions)
                => checkOut = "ValueError"
          /\ (probes[i].executed /\ "AssertionError" \notin exceptions
                /\ \E j \in 1..Len(probes[i].rows) : probes[i].rows[j] # 1)
                => checkOut = "AssertionError"
    /\ checkOut \in {"ok", "RuntimeError"}
          => \A i \in 1..Len(probes) : probes[i].raised \in exceptions \cup {"none"}

\* The first table failed with an exception of the set and was recorded; the
\* second returned a value other than 1, the assertion is not in the set, and
\* its error left check() with the failed list as it was.
C15_Witness ==
    /\ Len(tables) = 2
    /\ Len(probes) = 2
    /\ probes[1].raised \in exceptions
    /\ probes[2].executed /\ probes[2].rows = <<0>>
    /\ checkOut = "AssertionError"
    /\ errors = <<tables[1]>>
    /\ raisedTables = <<>>

-----------------------------------------------------------------------------
(* Properties of df_from_query_by_ids() (specification SpecIds)            *)

\* The k-th consecutive slice of ids, of `size` items but for the last.
Slice(k) == SubSeq(ids, (k - 1) * size + 1, Min(k * size, Len(ids)))

\* ceil(n / s)
CeilDiv(n, s) == (n + s - 1) \div s

\* The call was left with no execution having raised.
LoopCompleted == idsOut \notin {"idle", "running", "DatabaseError"}

\* The rows of the first k fetches, in order.
FetchedUpTo[k \in 0..Len(fetched)] ==
    IF k = 0 THEN <<>> ELSE FetchedUpTo[k - 1] \o fetched[k]

\* C8: called with an empty ids sequence, df_from_query_by_ids raises the
\* ValueError of its guard, and cur.execute was never invoked.
C8_EmptyIds ==
    ids = <<>> =>
        /\ calls = <<>>
        /\ idsOut \in {"running", "ValueError: Parameter ids must not be empty"}

C8_Witness ==
    /\ ids = <<>>
    /\ idsOut = "ValueError: Parameter ids must not be empty"
    /\ calls = <<>>

\* C9 as stated: the k-th execution binds the k-th consecutive slice of ids
\* under "ids" and the caller's parameters, and a call whose executions all
\* returned made exactly ceil(n / s) of them.
C9_AsStated ==
    /\ \A k \in 1..Len(calls) :
          /\ <<"ids", Slice(k)>> \in calls[k]
          /\ parameters.items \subseteq calls[k]
    /\ (ids # <<>> /\ LoopCompleted) => Len(calls) = CeilDiv(Len(ids), size)

\* C9 amended: the executions are made in order, at most ceil(n / s) of them
\* and exactly that many when none raised; each binds the caller's
\* parameters; the k-th binds the k-th consecutive slice of ids under "ids"
\* provided the caller's parameters hold no "ids" key (an "ids" item of the
\* caller replaces the chunk in every execution).
C9_Chunked ==
    /\ \A k \in 1..Len(calls) :
          /\ parameters.items \subseteq calls[k]
          /\ "ids" \notin Keys(parameters.items) =>
                /\ calls[k] = parameters.items \cup {<<"ids", Slice(k)>>}
                /\ Len(Slice(k)) = (IF k < CeilDiv(Len(ids), size)
                                    THEN size
                                    ELSE Len(ids) - (k - 1) * size)
          /\ "ids" \in Keys(parameters.items) => calls[k] = parameters.items
    /\ Len(calls) <= CeilDiv(Len(ids), size)
    /\ (ids # <<>> /\ LoopCompleted) => Len(calls) = CeilDiv(Len(ids), size)

C9_Witness ==
    /\ Len(ids) = 5 /\ size = 2
    /\ idsOut = "df"
    /\ Len(calls) = 3
    /\ calls[1] = {<<"ids", SubSeq(ids, 1, 2)>>, <<"p", <<7>>>>}
    /\ calls[2] = {<<"ids", SubSeq(ids, 3, 4)>>, <<"p", <<7>>>>}
    /\ calls[3] = {<<"ids", SubSeq(ids, 5, 5)>>, <<"p", <<7>>>>}

\* C10 as stated: for non-empty ids and any per-chunk fetch results, the call
\* returns one result holding exactly the rows fetched over all chunks, with
\* the columns of the cursor's description after the last execute.
C10_AsStated ==
    (ids # <<>> /\ LoopCompleted) =>
        /\ idsOut = "df"
        /\ df.rows = FetchedUpTo[Len(fetched)]
        /\ df.columns = description

-----------------------------------------------------------------------------
(* Properties of the calls a cursor receives (specification SpecExecutions) *)

\* The statements of the first k probes that got as far as cur.execute.
ExecutedUpTo[k \in 0..Len(probes)] ==
    IF k = 0 THEN <<>>
    ELSE IF probes[k].executed
         THEN Append(ExecutedUpTo[k - 1], Statement(probes[k].table))
         ELSE ExecutedUpTo[k - 1]

\* C16: check() calls cur.execute at most once for each entry of the
\* configured table list, in configured order, a table that failed included;
\* df_from_query_by_ids calls cur.execute once for each chunk, in order, and
\* an execution that raised is the last call made.
C16_NoRetry ==
    /\ Len(probes) <= Len(tables)
    /\ \A i \in 1..Len(probes) : probes[i].table = tables[i]
    /\ executed = ExecutedUpTo[Len(probes)]
    /\ Len(executed) <= Len(tables)
    /\ Len(calls) <= CeilDiv(Len(ids), size)
    /\ \A k \in 1..Len(calls) :
          calls[k] = Bound(Slice(k), ParametersOrEmpty(parameters))
    /\ LoopCompleted => Len(calls) = CeilDiv(Len(ids), size)
    /\ idsOut = "running" => Len(calls) = Len(fetched)
    /\ idsOut = "DatabaseError" => Len(calls) = Len(fetched) + 1

\* The second of three chunks raised: two calls were made, one for each of
\* the first two chunks, and the third chunk was never executed.
C16_Witness ==
    /\ idsOut = "DatabaseError"
    /\ CeilDiv(Len(ids), size) = 3
    /\ Len(calls) = 2 /\ Len(fetched) = 1
    /\ calls[1] # calls[2]
    /\ Len(todo) = 1

-----------------------------------------------------------------------------
(* Properties of df_from_query_by_keys() (specification SpecKeys)          *)

\* The "union all select" fragments of a clause.
FragmentCount(text) ==
    Cardinality({i \in 1..Len(text) : text[i] = "union all select "})

\* One fragment for each key, in input order, each with its key's literal.
Fragments(values) ==
    [i \in 1..Len(values) |-> <<"union all select ">> \o Literal(values[i])]

\* C11: the clause union_all makes of a key sequence of length n has
\* exactly n "union all select" fragments (none when n = 0), in input order,
\* the i-th with the renderer's literal for the i-th key; the clause of every
\* named key-group of df_from_query_by_keys has as many fragments as keys
\* were supplied for that group.
C11_UnionAll ==
    /\ Len(clauses) <= Len(KeysOrEmpty(keys))
    /\ \A g \in 1..Len(clauses) :
          LET group == KeysOrEmpty(keys)[g] IN
          /\ clauses[g].name = group.name
          /\ FragmentCount(clauses[g].text) = Len(group.values)
          /\ clauses[g].text = Join("\n    ", Fragments(group.values))

\* A group of three keys, a string that looks like a placeholder among
\* them, next to a group of no keys.
C11_Witness ==
    /\ Len(clauses) = 2
    /\ Len(KeysOrEmpty(keys)[1].values) = 3
    /\ KeysOrEmpty(keys)[1].values[1] = IntValue("1")
    /\ KeysOrEmpty(keys)[1].values[2] = StrValue(<<"%s">>)
    /\ KeysOrEmpty(keys)[1].values[3] = StrValue(<<"o", "'", "k">>)
    /\ FragmentCount(clauses[1].text) = 3
    /\ KeysOrEmpty(keys)[2].values = <<>>
    /\ clauses[2].text = <<>>

IsPrefix(s, u) == Len(s) <= Len(u) /\ s = SubSeq(u, 1, Len(s))

\* The steps of a call that nothing stops, in the order of lines 118-126.
PipelineSteps ==
    [g \in 1..Len(KeysOrEmpty(keys)) |-> "union_all"]
    \o <<"format", "mogrify", "write", "execute", "fetch">>

Done(step) == \E i \in 1..Len(steps) : steps[i] = step

\* C12: df_from_query_by_keys renders every key-group into its clause,
\* substitutes the clauses into the template, renders the substituted
\* template against parameters, writes the rendered statement to the
\* temporary file and calls cur.execute, in this order and each once;
\* cur.execute is given exactly the rendered text and nothing to bind, the
\* text is what was written to the file, and the file was written before.
C12_Pipeline ==
    /\ IsPrefix(steps, PipelineSteps)
    /\ keysOut = "df" => steps = PipelineSteps
    /\ Done("format") /\ query # <<>> => query = Format(template, clauses).text
    /\ rendered # <<>> =>
          rendered = Decode(Mogrify(dialect, query,
                                    DictOf(ParametersOrEmpty(keyParameters))).bytes)
    /\ artifact # "none" => (Done("write") /\ artifact = rendered)
    /\ Len(keyCalls) = (IF Done("execute") THEN 1 ELSE 0)
    /\ \A c \in 1..Len(keyCalls) :
          /\ artifact # "none"
          /\ keyCalls[c] = [statement |-> artifact, bound |-> NothingBound]

C12_Witness ==
    /\ keysOut = "df"
    /\ Len(clauses) = 2
    /\ keyParameters.items # {}
    /\ rendered # query
    /\ artifact = rendered
    /\ keyCalls = <<[statement |-> rendered, bound |-> NothingBound]>>

\* The second rendering pass was made.
SecondPassDone == Done("mogrify")

\* What the second pass gives when the clauses are opaque to it: the
\* template's own placeholders rendered, the clauses put in as they are.
TemplateRaises ==
    MogrifyRaises(dialect, template, DictOf(ParametersOrEmpty(keyParameters)))

OpaqueClauses ==
    Format(MogrifyText(dialect, template, DictOf(ParametersOrEmpty(keyParameters))),
           clauses).text

\* Placeholders that key values brought into the substituted template.
KeyPlaceholders ==
    {i \in 1..Len(query) : IsPlaceholder(query[i]) /\ InLiteral(query, i)}

\* C17 as stated: the literals of the first pass are carried unchanged into
\* the final statement, and the second pass substitutes the parameters as the
\* template alone says, whatever the key values are.
C17_AsStated ==
    SecondPassDone =>
        IF TemplateRaises
        THEN keysOut = "RenderError"
        ELSE keysOut # "RenderError" /\ rendered = OpaqueClauses

\* C17 amended: the literals of the first pass are carried unchanged and the
\* parameters are substituted as the template alone says when the dialect's
\* renderer leaves the inside of quoted literals alone, or when no key value
\* brought a placeholder; a renderer that scans the whole text interprets a
\* placeholder inside a key's literal: the call fails, or the placeholder is
\* replaced by a parameter's literal and the key's literal is changed.
C17_TwoPass ==
    SecondPassDone =>
        IF dialect = "quote_aware" \/ KeyPlaceholders = {}
        THEN IF TemplateRaises
             THEN keysOut = "RenderError"
             ELSE keysOut # "RenderError" /\ rendered = OpaqueClauses
        ELSE \/ keysOut = "RenderError"
             \/ /\ rendered # OpaqueClauses
                /\ \A i \in 1..Len(rendered) : ~IsPlaceholder(rendered[i])

\* A key that looks like a named placeholder went through a renderer that
\* leaves literals alone: its literal is in the statement executed, and the
\* parameters were substituted around it.
C17_Witness ==
    /\ dialect = "quote_aware"
    /\ KeyPlaceholders # {}
    /\ \E i \in KeyPlaceholders : query[i] = "%(p)s"
    /\ keysOut = "df"
    /\ rendered = OpaqueClauses
    /\ rendered # query
    /\ \E i \in 1..Len(rendered) : rendered[i] = "%(p)s"
    /\ keyCalls[1].statement = rendered

-----------------------------------------------------------------------------
(* Properties of the YAML mapping of Persistor (specification SpecYaml)    *)

\* C13: the mapping as_yaml() returns holds exactly the keywords
\* Persistor.__init__ requires, and the persistor _yaml_init constructs from
\* the node _yaml_repr made has the same database, host, password, port,
\* username, sql asset and table list as the one represented.
C13_RoundTrip ==
    /\ yamlOut \in {"represented", "ok", "TypeError"}
          => (node.tag = YAML /\ DOMAIN node.mapping = InitKeywords)
    /\ yamlOut \notin {"idle", "running", "represented"}
          => /\ yamlOut = "ok"
             /\ loaded.database = persistor.database
             /\ loaded.host = persistor.host
             /\ loaded.password = persistor.password
             /\ loaded.port = persistor.port
             /\ loaded.username = persistor.username
             /\ loaded.sql = persistor.sql
             /\ loaded.tables = persistor.tables

C13_Witness ==
    /\ yamlOut = "ok"
    /\ Len(persistor.tables) = 2
    /\ persistor.tables[1] # persistor.tables[2]
    /\ persistor.port = 5432
    /\ persistor.password = "secret"
    /\ loaded = persistor

=============================================================================
